---- MODULE Spec2Model ----
(***************************************************************************)
(* Model of the POST /api/synthesize pipeline of the Vapi-Kokoro TTS       *)
(* middleware (src/vapi-kokoro-middleware.js): the authentication gate,    *)
(* the validation, the provider call, the ffmpeg transcoding, the 30s      *)
(* deadline timer, the response object and the requestTracker map.         *)
(*                                                                         *)
(* One action is one turn of the Node.js event loop: the code between two  *)
(* suspension points runs to completion, and timers, socket events and     *)
(* child-process events interleave only at the awaits.                     *)
(***************************************************************************)
EXTENDS Integers, Sequences, FiniteSets, TLC

(***************************************************************************)
(* Bounds of the model.                                                    *)
(***************************************************************************)
\* requests that may be in flight together (mode "load")
MaxRequests == 2
\* 16-bit samples ffmpeg may produce for one request
MaxSamples == 1

Ids == 1..MaxRequests

(***************************************************************************)
(* JavaScript values.  A value carries its type tag: t is the typeof, s    *)
(* the characters of a string, n the value of a number.                    *)
(***************************************************************************)
Undefined == [t |-> "undefined", s |-> <<>>, n |-> 0]
Str(chars) == [t |-> "string", s |-> chars, n |-> 0]
Num(k) == [t |-> "number", s |-> <<>>, n |-> k]

\* ToBoolean: undefined, "" and 0 are falsy
Truthy(v) ==
  \/ v.t = "string" /\ v.s # <<>>
  \/ v.t = "number" /\ v.n # 0

IsWhiteSpace(c) == c \in {" ", "\t", "\n"}

RECURSIVE TrimStart(_)
TrimStart(chars) ==
  IF chars # <<>> /\ IsWhiteSpace(Head(chars)) THEN TrimStart(Tail(chars)) ELSE chars

RECURSIVE TrimEnd(_)
TrimEnd(chars) ==
  IF chars # <<>> /\ IsWhiteSpace(chars[Len(chars)])
  THEN TrimEnd(SubSeq(chars, 1, Len(chars) - 1))
  ELSE chars

\* String.prototype.trim
Trim(chars) == TrimEnd(TrimStart(chars))

(***************************************************************************)
(* CONFIG                                                                  *)
(***************************************************************************)
VAPI_SECRET == Str(<<"your-vapi-webhook-secret">>)
SUPPORTED_SAMPLE_RATES == <<8000, 16000, 22050, 24000, 44100>>
DEFAULT_VOICE == Str(<<"af_heart">>)
DEFAULT_MODEL == "model_q8f16"

\* Array.prototype.includes (SameValueZero: a string "24000" is not 24000)
Includes(list, v) == v.t = "number" /\ \E i \in 1..Len(list) : list[i] = v.n

(***************************************************************************)
(* Requests.  A request is the x-vapi-secret header and the JSON body as   *)
(* express.json() parsed it; message, its fields and assistant may each be *)
(* absent.                                                                 *)
(***************************************************************************)
NoAssistant == [present |-> FALSE, voice |-> Undefined]
Assistant(voice) == [present |-> TRUE, voice |-> voice]

NoMessage ==
  [present |-> FALSE, type |-> Undefined, text |-> Undefined,
   sampleRate |-> Undefined, assistant |-> NoAssistant]
Message(type, text, sampleRate, assistant) ==
  [present |-> TRUE, type |-> type, text |-> text,
   sampleRate |-> sampleRate, assistant |-> assistant]

Request(secret, message) == [secret |-> secret, body |-> [message |-> message]]

VoiceRequest == Str(<<"voice-request">>)

Secrets == {Undefined, Str(<<>>), Str(<<"invalid-secret">>), VAPI_SECRET}
Types == {Undefined, Str(<<"status-update">>), VoiceRequest}
Texts ==
  {Undefined, Str(<<>>), Str(<<" ">>), Str(<<"h", "i">>), Str(<<" ", "a", "\t">>), Num(7)}
Rates ==
  {Num(SUPPORTED_SAMPLE_RATES[i]) : i \in 1..Len(SUPPORTED_SAMPLE_RATES)}
    \cup {Num(11025), Str(<<"24000">>), Undefined}
Assistants ==
  {NoAssistant, Assistant(Undefined), Assistant(Str(<<>>)), Assistant(Str(<<"af_bella">>))}

\* every request a client can send, field by field
AllRequests ==
  {Request(secret, NoMessage) : secret \in Secrets}
    \cup {Request(x[1], Message(x[2], x[3], x[4], x[5])) :
            x \in Secrets \X Types \X Texts \X Rates \X Assistants}

\* the requests of the integration tests, and one for each way the handler
\* can leave before the provider call
TestRequests ==
  { Request(VAPI_SECRET,
            Message(VoiceRequest, Str(<<"h", "i">>), Num(24000), Assistant(Undefined))),
    Request(Str(<<"invalid-secret">>),
            Message(VoiceRequest, Str(<<"h", "i">>), Num(24000), NoAssistant)),
    Request(VAPI_SECRET,
            Message(VoiceRequest, Str(<<>>), Num(24000), NoAssistant)),
    Request(VAPI_SECRET,
            Message(VoiceRequest, Str(<<"h", "i">>), Num(11025), NoAssistant)),
    Request(VAPI_SECRET,
            Message(VoiceRequest, Num(7), Num(24000), NoAssistant)),
    Request(VAPI_SECRET, NoMessage) }

\* (variant: any non-empty secret is let through)
authenticateVapiAnySecret(secret) == Truthy(secret)

(***************************************************************************)
(* authenticateVapi: TRUE when next() is called, FALSE when 401 is sent.   *)
(***************************************************************************)
authenticateVapi(secret) == ~(~Truthy(secret) \/ secret # VAPI_SECRET)

(***************************************************************************)
(* The validation of the handler, in the order of its tests.  The result   *)
(* is "ok", the error of the 400 it sends, or "TypeError" when text.trim   *)
(* is not a function (text is truthy and no string) and the handler's      *)
(* catch takes over.                                                       *)
(***************************************************************************)
\* (variant: the type of the message is not tested)
InvalidFormatMissingOnly(message) == ~message.present
InvalidFormat(message) == ~message.present \/ message.type # VoiceRequest

\* (variant: the text is not trimmed before its length is tested)
EmptyTextUntrimmed(text) == ~Truthy(text)
EmptyText(text) == ~Truthy(text) \/ Len(Trim(text.s)) = 0

TrimThrows(text) == Truthy(text) /\ text.t # "string"

UnsupportedRate(sampleRate) == ~Includes(SUPPORTED_SAMPLE_RATES, sampleRate)

\* (variant: the sample rate is tested before the text)
ValidateRateFirst(body) ==
  LET message == body.message IN
  IF InvalidFormat(message) THEN "Invalid request format"
  ELSE IF UnsupportedRate(message.sampleRate) THEN "Unsupported sample rate"
  ELSE IF TrimThrows(message.text) THEN "TypeError"
  ELSE IF EmptyText(message.text) THEN "Empty text provided"
  ELSE "ok"

Validate(body) ==
  LET message == body.message IN
  IF InvalidFormat(message) THEN "Invalid request format"
  ELSE IF TrimThrows(message.text) THEN "TypeError"
  ELSE IF EmptyText(message.text) THEN "Empty text provided"
  ELSE IF UnsupportedRate(message.sampleRate) THEN "Unsupported sample rate"
  ELSE "ok"

(***************************************************************************)
(* determineVoice                                                          *)
(***************************************************************************)
\* (variant: the assistant's voice is ignored)
determineVoiceDefaultOnly(message) == DEFAULT_VOICE
determineVoice(message) ==
  IF message.assistant.present /\ Truthy(message.assistant.voice)
  THEN message.assistant.voice
  ELSE DEFAULT_VOICE

(***************************************************************************)
(* Responses as they go out on the wire.                                   *)
(***************************************************************************)
NoRates == <<>>

JsonResponse(status, error) ==
  [status |-> status, contentType |-> "application/json", contentLength |-> -1,
   error |-> error, requestId |-> 0, details |-> "", supportedRates |-> NoRates,
   body |-> <<>>]

Unauthorized == JsonResponse(401, "Unauthorized")
RequestTimeout == JsonResponse(408, "Request timeout")
\* (variant: the 400 for the sample rate does not list the rates)
BadRequestWithoutRates(error) == JsonResponse(400, error)
BadRequest(error) ==
  IF error = "Unsupported sample rate"
  THEN [JsonResponse(400, error) EXCEPT !.supportedRates = SUPPORTED_SAMPLE_RATES]
  ELSE JsonResponse(400, error)
SynthesisFailed(requestId, details) ==
  [JsonResponse(500, "TTS synthesis failed") EXCEPT
     !.requestId = requestId, !.details = details]

\* (variant: Content-Length counts samples, not bytes)
PcmResponseSampleCount(pcmBuffer) ==
  [status |-> 200, contentType |-> "application/octet-stream",
   contentLength |-> Len(pcmBuffer) \div 2, error |-> "", requestId |-> 0,
   details |-> "", supportedRates |-> NoRates, body |-> pcmBuffer]
\* res.setHeader x 2, res.write(pcmBuffer), res.end()
PcmResponse(pcmBuffer) ==
  [status |-> 200, contentType |-> "application/octet-stream",
   contentLength |-> Len(pcmBuffer), error |-> "", requestId |-> 0, details |-> "",
   supportedRates |-> NoRates, body |-> pcmBuffer]

(***************************************************************************)
(* ffmpeg's output for s16le: whole 16-bit samples, low byte first.  The   *)
(* output stream hands them over in chunks cut at any byte.                *)
(***************************************************************************)
S16le(sample) == <<sample % 256, sample \div 256>>

RECURSIVE Encode(_)
Encode(samples) ==
  IF samples = <<>> THEN <<>> ELSE S16le(Head(samples)) \o Encode(Tail(samples))

\* what one run of ffmpeg may put out: up to MaxSamples samples 0x0102
PcmOutputs == {Encode([i \in 1..k |-> 258]) : k \in 0..MaxSamples}

\* Buffer.concat(chunks)
RECURSIVE Concat(_)
Concat(chunks) ==
  IF chunks = <<>> THEN <<>> ELSE Head(chunks) \o Concat(Tail(chunks))

(***************************************************************************)
(* State.                                                                  *)
(***************************************************************************)
VARIABLES
  mode,            \* what the clients do: "load" or "sweep"
  req,             \* req[r]: the r-th request received
  pc,              \* pc[r]: where the handler of request r stands
  timer,           \* timer[r]: the setTimeout of request r
  headersSent,     \* headersSent[r]: res.headersSent
  wire,            \* wire[r]: the responses sent to the client of r, in order
  requestTracker,  \* the Map: requestId -> record
  kokoro,          \* kokoro[r]: the axios.post to the provider
  ff,              \* ff[r]: the ffmpeg command and the chunks array
  trace,           \* trace[r]: the stages the pipeline of r went through
  thrown           \* thrown[r]: ERR_HTTP_HEADERS_SENT raised by res of r

vars ==
  <<mode, req, pc, timer, headersSent, wire, requestTracker, kokoro, ff, trace, thrown>>

NoRequest == Request(Undefined, NoMessage)
NoCall == [called |-> FALSE, model |-> "", voice |-> Undefined, input |-> Undefined]
NoFfmpeg ==
  [running |-> FALSE, rate |-> 0, output |-> <<>>, pending |-> <<>>, chunks |-> <<>>]

EmptyMap == [k \in {} |-> [body |-> NoRequest.body]]

InitIn(m) ==
  /\ mode = m
  /\ req = [r \in Ids |-> NoRequest]
  /\ pc = [r \in Ids |-> "idle"]
  /\ timer = [r \in Ids |-> "none"]
  /\ headersSent = [r \in Ids |-> FALSE]
  /\ wire = [r \in Ids |-> <<>>]
  /\ requestTracker = EmptyMap
  /\ kokoro = [r \in Ids |-> NoCall]
  /\ ff = [r \in Ids |-> NoFfmpeg]
  /\ trace = [r \in Ids |-> <<>>]
  /\ thrown = [r \in Ids |-> 0]

\* "load": up to MaxRequests requests, drawn from TestRequests, are in flight
\* together
Init == InitIn("load")
\* "sweep": a single request, drawn from AllRequests, is followed through
\* every path of the handler
InitSweep == InitIn("sweep")

Requests == IF mode = "sweep" THEN AllRequests ELSE TestRequests
Clients == IF mode = "sweep" THEN {1} ELSE Ids

(***************************************************************************)
(* The Map and the timer.                                                  *)
(***************************************************************************)
MapSet(map, key, value) ==
  [k \in DOMAIN map \cup {key} |-> IF k = key THEN value ELSE map[k]]
\* (variant: the delete empties the map)
MapDeleteClears(map, key) == [k \in {} |-> map[k]]
MapDelete(map, key) == [k \in DOMAIN map \ {key} |-> map[k]]
MapSize(map) == Cardinality(DOMAIN map)

\* (variant: the timer is never cleared)
clearTimeoutForgotten(t) == t
\* clearTimeout: only a pending timer is affected
clearTimeout(t) == IF t = "pending" THEN "cleared" ELSE t

(***************************************************************************)
(* The guards in front of the three places that answer after an await.     *)
(***************************************************************************)
\* (variant: the callback of the timer never answers)
TimeoutNeverResponds(r) == FALSE
\* setTimeout callback: if (!res.headersSent)
TimeoutResponds(r) == ~headersSent[r]
\* (variant: the catch answers without looking at res.headersSent)
CatchRespondsAlways(r) == TRUE
\* catch: if (!res.headersSent)
CatchResponds(r) == ~headersSent[r]
\* res.setHeader throws ERR_HTTP_HEADERS_SENT once the headers went out; the
\* success path calls it without a test of its own
SetHeaderThrows(r) == headersSent[r]

\* (variant: the 500 does not carry the requestId)
CatchResponseWithoutId(r, details) == SynthesisFailed(0, details)
\* the response of the catch block
CatchResponse(r, details) == SynthesisFailed(r, details)

\* (variant: the catch answers but leaves the timer and the record)
CatchOnlyAnswers(r, details) ==
  /\ UNCHANGED <<timer, requestTracker>>
  /\ IF CatchResponds(r)
     THEN /\ wire' = [wire EXCEPT ![r] = Append(@, CatchResponse(r, details))]
          /\ headersSent' = [headersSent EXCEPT ![r] = TRUE]
     ELSE UNCHANGED <<wire, headersSent>>

(***************************************************************************)
(* catch (error) { clearTimeout; requestTracker.delete; 500 unless sent }  *)
(***************************************************************************)
Catch(r, details) ==
  /\ timer' = [timer EXCEPT ![r] = clearTimeout(@)]
  /\ requestTracker' = MapDelete(requestTracker, r)
  /\ IF CatchResponds(r)
     THEN /\ wire' = [wire EXCEPT ![r] = Append(@, CatchResponse(r, details))]
          /\ headersSent' = [headersSent EXCEPT ![r] = TRUE]
     ELSE UNCHANGED <<wire, headersSent>>

(***************************************************************************)
(* A request arrives: authenticateVapi, then the handler up to its first   *)
(* await (or to its return).  requestId is r: crypto.randomUUID() is       *)
(* fresh for every request.                                                *)
(***************************************************************************)
Record(request) == [body |-> request.body]

KokoroCall(message) ==
  [called |-> TRUE, model |-> DEFAULT_MODEL, voice |-> determineVoice(message),
   input |-> message.text]

Receive(r) ==
  /\ r \in Clients
  /\ pc[r] = "idle"
  /\ \A q \in 1..(r - 1) : pc[q] # "idle"
  /\ \E request \in Requests :
       LET verdict == Validate(request.body) IN
       /\ req' = [req EXCEPT ![r] = request]
       /\ IF ~authenticateVapi(request.secret)
          THEN \* 401, next() is not called
               /\ pc' = [pc EXCEPT ![r] = "rejected"]
               /\ wire' = [wire EXCEPT ![r] = Append(@, Unauthorized)]
               /\ headersSent' = [headersSent EXCEPT ![r] = TRUE]
               /\ UNCHANGED <<timer, requestTracker, kokoro, trace>>
          ELSE IF verdict = "ok"
          THEN \* runs to: await callKokoroTTS(text, message)
               /\ pc' = [pc EXCEPT ![r] = "awaitKokoro"]
               /\ timer' = [timer EXCEPT ![r] = "pending"]
               /\ requestTracker' = MapSet(requestTracker, r, Record(request))
               /\ kokoro' = [kokoro EXCEPT ![r] = KokoroCall(request.body.message)]
               /\ trace' = [trace EXCEPT ![r] = Append(@, "callKokoroTTS")]
               /\ UNCHANGED <<wire, headersSent>>
          ELSE IF verdict = "TypeError"
          THEN \* text.trim throws inside the try: the catch answers
               /\ pc' = [pc EXCEPT ![r] = "done"]
               /\ timer' = [timer EXCEPT ![r] = clearTimeout("pending")]
               /\ requestTracker' =
                    MapDelete(MapSet(requestTracker, r, Record(request)), r)
               /\ wire' = [wire EXCEPT ![r] =
                    Append(@, CatchResponse(r, "text.trim is not a function"))]
               /\ headersSent' = [headersSent EXCEPT ![r] = TRUE]
               /\ UNCHANGED <<kokoro, trace>>
          ELSE \* clearTimeout(timeout); return res.status(400).json(...)
               /\ pc' = [pc EXCEPT ![r] = "done"]
               /\ timer' = [timer EXCEPT ![r] = clearTimeout("pending")]
               /\ requestTracker' = MapSet(requestTracker, r, Record(request))
               /\ wire' = [wire EXCEPT ![r] = Append(@, BadRequest(verdict))]
               /\ headersSent' = [headersSent EXCEPT ![r] = TRUE]
               /\ UNCHANGED <<kokoro, trace>>
  /\ UNCHANGED <<mode, ff, thrown>>

(***************************************************************************)
(* The provider answers: callKokoroTTS returns the buffer and the handler  *)
(* goes on to convertToPCM, which starts ffmpeg and awaits its events.     *)
(***************************************************************************)
KokoroResolves(r) ==
  /\ pc[r] = "awaitKokoro"
  /\ pc' = [pc EXCEPT ![r] = "awaitPCM"]
  /\ \E output \in PcmOutputs :
       ff' = [ff EXCEPT ![r] =
                [running |-> TRUE, rate |-> req[r].body.message.sampleRate.n,
                 output |-> output, pending |-> output, chunks |-> <<>>]]
  /\ trace' = [trace EXCEPT ![r] = @ \o <<"kokoroAudio", "convertToPCM">>]
  /\ UNCHANGED <<mode, req, timer, headersSent, wire, requestTracker, kokoro, thrown>>

\* (variant: callKokoroTTS swallows the error and the handler goes on to
\* convertToPCM without a buffer)
KokoroRejectsSwallowed(r) ==
  /\ pc[r] = "awaitKokoro"
  /\ pc' = [pc EXCEPT ![r] = "awaitPCM"]
  /\ \E output \in PcmOutputs :
       ff' = [ff EXCEPT ![r] =
                [running |-> TRUE, rate |-> req[r].body.message.sampleRate.n,
                 output |-> output, pending |-> output, chunks |-> <<>>]]
  /\ trace' = [trace EXCEPT ![r] = @ \o <<"kokoroError", "convertToPCM">>]
  /\ UNCHANGED <<mode, req, timer, headersSent, wire, requestTracker, kokoro, thrown>>

\* axios rejects (status, network, its 25s timeout): callKokoroTTS throws
KokoroRejects(r) ==
  /\ pc[r] = "awaitKokoro"
  /\ pc' = [pc EXCEPT ![r] = "done"]
  /\ Catch(r, "Kokoro TTS failed")
  /\ trace' = [trace EXCEPT ![r] = Append(@, "kokoroError")]
  /\ UNCHANGED <<mode, req, kokoro, ff, thrown>>

\* the process is gone and the closure of convertToPCM with it
Exited(f) == [f EXCEPT !.running = FALSE, !.pending = <<>>, !.chunks = <<>>]

(***************************************************************************)
(* ffmpeg events: 'data' on the output stream, then 'end', or 'error'.     *)
(***************************************************************************)
FfmpegData(r) ==
  /\ pc[r] = "awaitPCM"
  /\ ff[r].running
  /\ \E k \in 1..Len(ff[r].pending) :
       ff' = [ff EXCEPT ![r].chunks = Append(@, SubSeq(ff[r].pending, 1, k)),
                        ![r].pending = SubSeq(@, k + 1, Len(@))]
  /\ UNCHANGED <<mode, req, pc, timer, headersSent, wire, requestTracker, kokoro,
                 trace, thrown>>

\* 'end': resolve(Buffer.concat(chunks)); the handler answers 200
FfmpegEnd(r) ==
  /\ pc[r] = "awaitPCM"
  /\ ff[r].running
  /\ ff[r].pending = <<>>
  /\ pc' = [pc EXCEPT ![r] = "done"]
  /\ ff' = [ff EXCEPT ![r] = Exited(@)]
  /\ LET pcmBuffer == Concat(ff[r].chunks) IN
     IF SetHeaderThrows(r)
     THEN /\ thrown' = [thrown EXCEPT ![r] = @ + 1]
          /\ Catch(r, "Cannot set headers after they are sent to the client")
          /\ trace' = [trace EXCEPT ![r] = @ \o <<"pcmBuffer", "setHeader">>]
     ELSE /\ timer' = [timer EXCEPT ![r] = clearTimeout(@)]
          /\ wire' = [wire EXCEPT ![r] = Append(@, PcmResponse(pcmBuffer))]
          /\ headersSent' = [headersSent EXCEPT ![r] = TRUE]
          /\ requestTracker' = MapDelete(requestTracker, r)
          /\ trace' = [trace EXCEPT ![r] = @ \o <<"pcmBuffer", "setHeader", "write", "end">>]
          /\ UNCHANGED thrown
  /\ UNCHANGED <<mode, req, kokoro>>

\* 'error': reject(new Error('Audio conversion failed: ...'))
FfmpegError(r) ==
  /\ pc[r] = "awaitPCM"
  /\ ff[r].running
  /\ pc' = [pc EXCEPT ![r] = "done"]
  /\ ff' = [ff EXCEPT ![r] = Exited(@)]
  /\ Catch(r, "Audio conversion failed")
  /\ trace' = [trace EXCEPT ![r] = Append(@, "pcmError")]
  /\ UNCHANGED <<mode, req, kokoro, thrown>>

(***************************************************************************)
(* The 30s timer fires.                                                    *)
(***************************************************************************)
\* (variant: the callback also deletes the record)
TimeoutDeletesRecord(r) ==
  /\ timer[r] = "pending"
  /\ timer' = [timer EXCEPT ![r] = "fired"]
  /\ requestTracker' = MapDelete(requestTracker, r)
  /\ IF TimeoutResponds(r)
     THEN /\ wire' = [wire EXCEPT ![r] = Append(@, RequestTimeout)]
          /\ headersSent' = [headersSent EXCEPT ![r] = TRUE]
     ELSE UNCHANGED <<wire, headersSent>>
  /\ UNCHANGED <<mode, req, pc, kokoro, ff, trace, thrown>>

Timeout(r) ==
  /\ timer[r] = "pending"
  /\ timer' = [timer EXCEPT ![r] = "fired"]
  /\ IF TimeoutResponds(r)
     THEN /\ wire' = [wire EXCEPT ![r] = Append(@, RequestTimeout)]
          /\ headersSent' = [headersSent EXCEPT ![r] = TRUE]
     ELSE UNCHANGED <<wire, headersSent>>
  /\ UNCHANGED <<mode, req, pc, requestTracker, kokoro, ff, trace, thrown>>

Next ==
  \E r \in Ids :
    \/ Receive(r)
    \/ KokoroResolves(r)
    \/ KokoroRejects(r)
    \/ FfmpegData(r)
    \/ FfmpegEnd(r)
    \/ FfmpegError(r)
    \/ Timeout(r)

Spec == Init /\ [][Next]_vars
SpecSweep == InitSweep /\ [][Next]_vars

\* a timer that is pending fires in the end: Node runs the callback of a
\* setTimeout that nobody cleared.  Nothing is assumed of the provider or
\* of ffmpeg, which may never settle.
TimersFire == \A r \in Ids : WF_vars(Timeout(r))
SpecLive == Init /\ [][Next]_vars /\ TimersFire

(***************************************************************************)
(* Vocabulary of the properties.                                           *)
(***************************************************************************)
Arrived(r) == pc[r] # "idle"
\* the handler of r has returned (or, after a 401, was never entered)
Finished(r) == pc[r] \in {"rejected", "done"}
Suspended(r) == pc[r] \in {"awaitKokoro", "awaitPCM"}
Tracked(r) == r \in DOMAIN requestTracker
Statuses(r) == {wire[r][i].status : i \in 1..Len(wire[r])}
Did(r, stage) == \E i \in 1..Len(trace[r]) : trace[r][i] = stage
Authenticated(r) == Arrived(r) /\ req[r].secret = VAPI_SECRET
\* GET /api/status: activeRequests
activeRequests == MapSize(requestTracker)

(***************************************************************************)
(* C1: at most one HTTP response is ever sent for a request, whatever the  *)
(* order of the deadline timer and the pipeline's completion; it is one of *)
(* 200, 400, 401, 408, 500, and res.headersSent tells whether it went out. *)
(***************************************************************************)
C1_AtMostOneResponse ==
  \A r \in Ids :
    /\ Len(wire[r]) <= 1
    /\ Statuses(r) \subseteq {200, 400, 401, 408, 500}
    /\ headersSent[r] <=> wire[r] # <<>>
    /\ Finished(r) => Len(wire[r]) = 1

\* the deadline answered first and the pipeline settled afterwards
C1_Witness ==
  \E r \in Ids :
    /\ pc[r] = "done" /\ timer[r] = "fired"
    /\ wire[r] = <<RequestTimeout>>
    /\ Did(r, "kokoroError")

(***************************************************************************)
(* C2: no record outlives its request: once the response of a request has  *)
(* been sent and its handler has finished, its id is not in requestTracker.*)
(***************************************************************************)
C2_NoRecordOutlivesRequest ==
  \A r \in Ids : (Finished(r) /\ wire[r] # <<>>) => ~Tracked(r)

(***************************************************************************)
(* C3: when the timer fires for a request not yet answered, the firing     *)
(* sends the 408 and removes the request's record from requestTracker.     *)
(***************************************************************************)
C3_TimeoutSendsAndRemoves ==
  [][\A r \in Ids :
       (Timeout(r) /\ ~headersSent[r]) =>
         (wire'[r] = <<RequestTimeout>> /\ r \notin DOMAIN requestTracker')]_vars

(***************************************************************************)
(* C4: after the 408, a late successful completion of the provider call    *)
(* and the transcoding tests whether a response was sent before it touches *)
(* the response: it never calls setHeader, write or end on it.             *)
(***************************************************************************)
C4_LateSuccessLeavesResponseAlone ==
  \A r \in Ids :
    (408 \in Statuses(r) /\ Did(r, "pcmBuffer")) =>
      (thrown[r] = 0 /\ ~Did(r, "setHeader"))

(***************************************************************************)
(* C5: a request whose x-vapi-secret header is missing or differs from the *)
(* configured secret gets 401 {error: 'Unauthorized'} and its handler is   *)
(* never entered: no record, no timer, no provider call, no transcoding.   *)
(***************************************************************************)
SecretMissingOrWrong(r) ==
  req[r].secret.t = "undefined" \/ req[r].secret.s # <<"your-vapi-webhook-secret">>

C5_UnauthorizedNeverEntersHandler ==
  \A r \in Ids :
    (Arrived(r) /\ SecretMissingOrWrong(r)) =>
      /\ wire[r] = <<Unauthorized>>
      /\ pc[r] = "rejected"
      /\ ~Tracked(r)
      /\ timer[r] = "none"
      /\ ~kokoro[r].called
      /\ ff[r] = NoFfmpeg
      /\ trace[r] = <<>>

C5_Witness ==
  \E r \in Ids :
    /\ req[r].secret = Str(<<"invalid-secret">>)
    /\ req[r].body.message.present /\ Validate(req[r].body) = "ok"
    /\ wire[r] = <<Unauthorized>>

(***************************************************************************)
(* C6: an authenticated request whose text is the empty string or only     *)
(* whitespace gets a 400, and the provider is never called for it.         *)
(***************************************************************************)
OnlyWhitespace(text) ==
  text.t = "string" /\ \A i \in 1..Len(text.s) : text.s[i] \in {" ", "\t", "\n"}

C6_EmptyTextIs400BeforeProvider ==
  \A r \in Ids :
    (/\ Authenticated(r)
     /\ req[r].body.message.present
     /\ OnlyWhitespace(req[r].body.message.text)) =>
      /\ Len(wire[r]) = 1 /\ wire[r][1].status = 400
      /\ pc[r] = "done"
      /\ ~kokoro[r].called
      /\ ~Did(r, "callKokoroTTS")

C6_Witness ==
  \E r \in Ids :
    /\ Authenticated(r)
    /\ req[r].body.message.text = Str(<<" ">>)
    /\ wire[r] = <<JsonResponse(400, "Empty text provided")>>

(***************************************************************************)
(* C7: an authenticated request whose sampleRate is outside the supported  *)
(* set gets a 400 that lists the supported rates.  As claimed: whatever    *)
(* the other fields are.  As amended: when the message type is             *)
(* 'voice-request' and the text is a string with a non-whitespace          *)
(* character, that is when the two earlier tests pass.                     *)
(***************************************************************************)
RateOutsideSet(r) ==
  /\ req[r].body.message.present
  /\ LET rate == req[r].body.message.sampleRate IN
     ~(rate.t = "number" /\ rate.n \in {8000, 16000, 22050, 24000, 44100})

ListsSupportedRates(r) ==
  /\ Len(wire[r]) = 1
  /\ wire[r][1].status = 400
  /\ wire[r][1].supportedRates = <<8000, 16000, 22050, 24000, 44100>>

C7_Original_UnsupportedRateAlwaysListsRates ==
  \A r \in Ids : (Authenticated(r) /\ RateOutsideSet(r)) => ListsSupportedRates(r)

C7_UnsupportedRateListsRates ==
  \A r \in Ids :
    (/\ Authenticated(r)
     /\ RateOutsideSet(r)
     /\ req[r].body.message.type.s = <<"voice-request">>
     /\ req[r].body.message.text.t = "string"
     /\ ~OnlyWhitespace(req[r].body.message.text)) =>
      /\ ListsSupportedRates(r)
      /\ wire[r][1].error = "Unsupported sample rate"
      /\ ~kokoro[r].called

C7_Witness ==
  \E r \in Ids :
    /\ Authenticated(r)
    /\ req[r].body.message.sampleRate = Num(11025)
    /\ req[r].body.message.text = Str(<<" ", "a", "\t">>)
    /\ ListsSupportedRates(r)

(***************************************************************************)
(* C8: if the provider call fails, convertToPCM is never invoked for the   *)
(* request and the caller receives 500 with the request's own requestId.   *)
(* As amended: the 500 is what the caller receives unless the deadline     *)
(* timer has fired first; then the 408 it sent stays the only response.    *)
(***************************************************************************)
ProviderFailed(r) == Did(r, "kokoroError")

OwnFailure(r) ==
  /\ Len(wire[r]) = 1
  /\ wire[r][1].status = 500
  /\ wire[r][1].requestId = r
  /\ wire[r][1].details = "Kokoro TTS failed"

NoTranscoding(r) ==
  /\ ~Did(r, "convertToPCM")
  /\ ff[r] = NoFfmpeg

C8_Original_ProviderFailureIs500 ==
  \A r \in Ids : ProviderFailed(r) => (NoTranscoding(r) /\ OwnFailure(r))

C8_ProviderFailureIs500UnlessTimedOut ==
  \A r \in Ids :
    ProviderFailed(r) =>
      /\ NoTranscoding(r)
      /\ pc[r] = "done"
      /\ IF timer[r] = "fired" THEN wire[r] = <<RequestTimeout>> ELSE OwnFailure(r)

\* two requests failed at the provider: each 500 names its own request
C8_Witness ==
  \E r, q \in Ids :
    /\ r # q
    /\ ProviderFailed(r) /\ OwnFailure(r) /\ timer[r] = "cleared"
    /\ ProviderFailed(q) /\ OwnFailure(q)

(***************************************************************************)
(* C9: within one request the stages run in pipeline order: convertToPCM   *)
(* starts only after callKokoroTTS returned the buffer, the 200 is written *)
(* only after convertToPCM resolved with the complete buffer, and no stage *)
(* is skipped or repeated.                                                 *)
(***************************************************************************)
Pipeline ==
  <<"callKokoroTTS", "kokoroAudio", "convertToPCM", "pcmBuffer", "setHeader", "write", "end">>

IsPrefix(s, t) == Len(s) <= Len(t) /\ s = SubSeq(t, 1, Len(s))

\* the stages in order up to some point, then at most the failure of the
\* stage that was running
InPipelineOrder(tr) ==
  \/ IsPrefix(tr, Pipeline)
  \/ tr = <<"callKokoroTTS", "kokoroError">>
  \/ tr = <<"callKokoroTTS", "kokoroAudio", "convertToPCM", "pcmError">>

TrackerSound ==
  /\ DOMAIN requestTracker \subseteq {r \in Ids : Authenticated(r)}
  /\ \A r \in Ids :
       /\ Suspended(r) => Tracked(r)
       /\ Tracked(r) => requestTracker[r] = [body |-> req[r].body]

OthersUntouched ==
  \A q \in Ids :
    pc'[q] = pc[q] =>
      /\ (q \in DOMAIN requestTracker') <=> Tracked(q)
      /\ Tracked(q) => requestTracker'[q] = requestTracker[q]

C11_TrackerNeverCorrupted == []TrackerSound /\ [][OthersUntouched]_vars

\* one of two pending requests has ended, the other still has its record
C11_Witness ==
  \E r, q \in Ids :
    /\ pc[r] = "done" /\ 200 \in Statuses(r) /\ ~Tracked(r)
    /\ Suspended(q) /\ Tracked(q)

(***************************************************************************)
(* C12: a request rejected by validation with a 400 has no side effects:   *)
(* requestTracker is after the request exactly what it was before, and     *)
(* neither the provider nor the transcoder is called.                      *)
(***************************************************************************)
RejectedWith400(r) ==
  pc[r] = "idle" /\ pc'[r] = "done" /\ wire'[r] # <<>> /\ wire'[r][1].status = 400

C12_ValidationFailureHasNoSideEffects ==
  [][\A r \in Ids :
       RejectedWith400(r) =>
         /\ requestTracker' = requestTracker
         /\ ~kokoro'[r].called
         /\ ~ff'[r].running]_vars

(***************************************************************************)
(* C13: a fault raised in the pipeline after tracking began (the           *)
(* transcoder fails, text.trim throws on a text that is no string) is      *)
(* caught by the handler: the handler ends, the record is removed, the     *)
(* timer is no longer pending, and if no response had been sent the caller *)
(* gets exactly one 500 {error, requestId, details}.                       *)
(***************************************************************************)
TranscoderFailed(r) == Did(r, "pcmError")

TextNotAString(r) ==
  /\ Authenticated(r)
  /\ req[r].body.message.present
  /\ req[r].body.message.type.s = <<"voice-request">>
  /\ req[r].body.message.text.t = "number"
  /\ req[r].body.message.text.n # 0

Is500(response, r, details) ==
  /\ response.status = 500
  /\ response.error = "TTS synthesis failed"
  /\ response.requestId = r
  /\ response.details = details

C13_FaultsAreCaught ==
  \A r \in Ids :
    /\ TranscoderFailed(r) =>
         /\ pc[r] = "done" /\ ~Tracked(r) /\ timer[r] # "pending"
         /\ Len(wire[r]) = 1
         /\ IF timer[r] = "fired"
            THEN wire[r] = <<RequestTimeout>>
            ELSE timer[r] = "cleared" /\ Is500(wire[r][1], r, "Audio conversion failed")
    /\ TextNotAString(r) =>
         /\ pc[r] = "done" /\ ~Tracked(r) /\ timer[r] = "cleared"
         /\ Len(wire[r]) = 1
         /\ Is500(wire[r][1], r, "text.trim is not a function")

\* the transcoder of one request failed, and the text of another is a number
C13_Witness ==
  \E r, q \in Ids :
    /\ TranscoderFailed(r) /\ timer[r] = "cleared" /\ wire[r][1].status = 500
    /\ TextNotAString(q) /\ wire[q][1].status = 500

(***************************************************************************)
(* C14: determineVoice returns the assistant's voice when the message      *)
(* carries a non-empty assistant.voice, and the default voice when the     *)
(* assistant or its voice is absent or empty; every validated message gets *)
(* a voice, and that voice is the one sent to the provider.                *)
(***************************************************************************)
HasAssistantVoice(message) ==
  /\ message.assistant.present
  /\ message.assistant.voice.t = "string"
  /\ Len(message.assistant.voice.s) > 0

C14_VoiceSentToProvider ==
  \A r \in Ids :
    LET message == req[r].body.message IN
    /\ Did(r, "callKokoroTTS") => kokoro[r].called
    /\ kokoro[r].called =>
         /\ kokoro[r].voice.t = "string" /\ kokoro[r].voice.s # <<>>
         /\ HasAssistantVoice(message) => kokoro[r].voice = message.assistant.voice
         /\ ~HasAssistantVoice(message) => kokoro[r].voice.s = <<"af_heart">>

C14_Witness ==
  \E r \in Ids :
    /\ kokoro[r].called
    /\ req[r].body.message.assistant = Assistant(Str(<<"af_bella">>))
    /\ kokoro[r].voice = Str(<<"af_bella">>)

\* the assistant is there, its voice is the empty string
C14_WitnessDefault ==
  \E r \in Ids :
    /\ kokoro[r].called
    /\ req[r].body.message.assistant = Assistant(Str(<<>>))
    /\ kokoro[r].voice = Str(<<"af_heart">>)

(***************************************************************************)
(* C15: the deadline has no effect on a request the pipeline has answered: *)
(* wherever the pipeline itself sends the response (200, 400 or 500) the   *)
(* timer is cleared no later than that response, so its callback never     *)
(* runs afterwards; and the timer fires at most once.                      *)
(***************************************************************************)
AnsweredByPipeline(r) == Statuses(r) \cap {200, 400, 500} # {}

TimerClearedWithResponse ==
  \A r \in Ids :
    /\ AnsweredByPipeline(r) => timer[r] = "cleared"
    /\ timer[r] = "fired" => wire[r] = <<RequestTimeout>>

\* no callback once the pipeline answered, and a fired timer is spent
TimerFiresOnceAndNotAfter ==
  \A r \in Ids :
    /\ AnsweredByPipeline(r) => timer'[r] = timer[r]
    /\ timer[r] = "fired" => timer'[r] = "fired"

C15_DeadlineSpentOnceAnswered ==
  []TimerClearedWithResponse /\ [][TimerFiresOnceAndNotAfter]_vars

\* one request answered 200 and one answered 408, both finished
C15_Witness ==
  \E r, q \in Ids :
    /\ pc[r] = "done" /\ 200 \in Statuses(r) /\ timer[r] = "cleared"
    /\ pc[q] = "done" /\ timer[q] = "fired" /\ wire[q] = <<RequestTimeout>>

(***************************************************************************)
(* C17: validation tests the constraints in a fixed order and reports the  *)
(* first that fails: no message or a type other than 'voice-request' gives *)
(* 'Invalid request format'; otherwise an empty or whitespace text gives   *)
(* 'Empty text provided'; otherwise an unsupported sampleRate gives        *)
(* 'Unsupported sample rate' with supportedRates, and supportedRates is in *)
(* no other body.  As amended: the third case is for a text that is a      *)
(* string; a text that is truthy and no string gives a 500 before the      *)
(* sample rate is looked at.                                               *)
(***************************************************************************)
BadType(message) == ~message.present \/ message.type.s # <<"voice-request">>

\* absent, falsy, or a string of whitespace only
NoText(message) ==
  \/ message.text.t = "undefined"
  \/ message.text.t = "number" /\ message.text.n = 0
  \/ OnlyWhitespace(message.text)

Answered400(r, error, rates) ==
  /\ Len(wire[r]) = 1
  /\ wire[r][1].status = 400
  /\ wire[r][1].error = error
  /\ wire[r][1].supportedRates = rates

RatesOnlyWithRateError ==
  \A r \in Ids : \A i \in 1..Len(wire[r]) :
    wire[r][i].supportedRates # <<>> => wire[r][i].error = "Unsupported sample rate"

C17_Original_FirstFailureReported ==
  /\ RatesOnlyWithRateError
  /\ \A r \in Ids :
       Authenticated(r) =>
         LET message == req[r].body.message IN
         IF BadType(message) THEN Answered400(r, "Invalid request format", <<>>)
         ELSE IF NoText(message) THEN Answered400(r, "Empty text provided", <<>>)
         ELSE RateOutsideSet(r) =>
                Answered400(r, "Unsupported sample rate",
                            <<8000, 16000, 22050, 24000, 44100>>)

C17_FirstFailureReported ==
  /\ RatesOnlyWithRateError
  /\ \A r \in Ids :
       Authenticated(r) =>
         LET message == req[r].body.message IN
         IF BadType(message) THEN Answered400(r, "Invalid request format", <<>>)
         ELSE IF NoText(message) THEN Answered400(r, "Empty text provided", <<>>)
         ELSE IF message.text.t # "string"
         THEN Len(wire[r]) = 1 /\ wire[r][1].status = 500
         ELSE RateOutsideSet(r) =>
                Answered400(r, "Unsupported sample rate",
                            <<8000, 16000, 22050, 24000, 44100>>)

\* two constraints fail at once, the earlier one is reported
C17_Witness ==
  \E r \in Ids :
    /\ Authenticated(r)
    /\ req[r].body.message.type = VoiceRequest
    /\ req[r].body.message.text = Str(<<" ">>)
    /\ req[r].body.message.sampleRate = Num(11025)
    /\ Answered400(r, "Empty text provided", <<>>)

(***************************************************************************)
(* C18: every request that entered the handler is answered in the end,    *)
(* with exactly one response, even if the provider call or the transcoder  *)
(* never settles; all that is assumed is that a pending timer fires.       *)
(***************************************************************************)
Entered(r) == pc[r] \in {"awaitKokoro", "awaitPCM", "done"}

C18_EveryRequestIsAnswered ==
  \A r \in Ids : [](Entered(r) => <>(Len(wire[r]) = 1))

\* the provider has not settled and the caller has its answer
C18_Witness ==
  \E r \in Ids :
    /\ pc[r] = "awaitKokoro"
    /\ timer[r] = "fired"
    /\ wire[r] = <<RequestTimeout>>

(***************************************************************************)
(* C19: a 408 is sent only while the request is suspended at the provider  *)
(* call or at the transcoder.  A request that fails authentication is      *)
(* answered 401 and one that fails validation 400, never 408, and the      *)
(* timer of such a request never fires: the tests run in the turn that     *)
(* starts the timer.                                                       *)
(***************************************************************************)
FailsValidation(r) ==
  LET message == req[r].body.message IN
  \/ BadType(message)
  \/ NoText(message)
  \/ message.text.t = "string" /\ RateOutsideSet(r)

OnlyValidatedTimeOut ==
  \A r \in Ids :
    /\ (Arrived(r) /\ SecretMissingOrWrong(r)) =>
         (wire[r] = <<Unauthorized>> /\ timer[r] = "none")
    /\ (Authenticated(r) /\ FailsValidation(r)) =>
         /\ Len(wire[r]) = 1 /\ wire[r][1].status = 400
         /\ timer[r] = "cleared"
    /\ (408 \in Statuses(r) \/ timer[r] = "fired") =>
         /\ Authenticated(r) /\ ~FailsValidation(r)
         /\ Did(r, "callKokoroTTS")

TimeoutOnlyWhileSuspended ==
  \A r \in Ids :
    (408 \notin Statuses(r) /\ wire'[r] # wire[r] /\ wire'[r][Len(wire'[r])].status = 408)
      => Suspended(r)

C19_TimeoutOnlyForSuspended ==
  []OnlyValidatedTimeOut /\ [][TimeoutOnlyWhileSuspended]_vars

\* the 408 came while ffmpeg was running
C19_Witness ==
  \E r \in Ids :
    /\ pc[r] = "awaitPCM" /\ ff[r].running
    /\ wire[r] = <<RequestTimeout>>

(***************************************************************************)
(* C20: for a request that passed validation the record is removed when    *)
(* the pipeline itself finishes (success path or catch) and not when the   *)
(* deadline fires: after the 408 the record stays in requestTracker, and   *)
(* in activeRequests, for as long as the abandoned provider or transcoder  *)
(* work has not settled, and it is gone as soon as that work settles.      *)
(***************************************************************************)
PassedValidation(r) == kokoro[r].called

RecordWhilePipelineRuns ==
  /\ \A r \in Ids : PassedValidation(r) => (Tracked(r) <=> Suspended(r))
  /\ activeRequests >= Cardinality({r \in Ids : Suspended(r)})

FiringKeepsRecords ==
  \A r \in Ids :
    (timer[r] = "pending" /\ timer'[r] = "fired") => requestTracker' = requestTracker

C20_RecordRemovedByPipelineOnly ==
  []RecordWhilePipelineRuns /\ [][FiringKeepsRecords]_vars

\* answered 408, still counted as active
C20_Witness ==
  \E r \in Ids :
    /\ wire[r] = <<RequestTimeout>> /\ timer[r] = "fired"
    /\ Suspended(r) /\ Tracked(r)
    /\ activeRequests >= 1

\* the abandoned work settled after the 408 and took the record with it
C20_WitnessSettled ==
  \E r \in Ids :
    /\ wire[r] = <<RequestTimeout>> /\ timer[r] = "fired"
    /\ pc[r] = "done" /\ ~Tracked(r)

====
